---- MODULE Spec2Model ----
(***************************************************************************)
(* Model of the confluence-rs session layer (src/src/lib.rs): login, call  *)
(* dispatch through the operation directory, explicit logout and the       *)
(* logout run by Drop, together with the wire-tree helpers of              *)
(* src/src/rpser/xml.rs that the session uses on responses.                *)
(*                                                                         *)
(* An action is the code of one handler between two suspension points      *)
(* (.await on the transport): the network is the environment, and its      *)
(* answer is the input of the action that resumes the handler.             *)
(***************************************************************************)
EXTENDS Integers, Sequences, FiniteSets, TLC

\* ------------------------------------------------------------------ bounds
\* calls made on one session through Session::call
MaxCalls == 2
\* tasks that share one session by reference (&self)
NumTasks == 2

Tasks == 1..NumTasks

\* --------------------------------------------------------------- wire tree
\* xmltree::XMLNode, as the variants this crate builds and reads.  Every
\* node has the same fields so that nodes of different variants compare.
Text(s) ==
  [kind |-> "Text", name |-> "", attributes |-> <<>>, children |-> <<>>, text |-> s]

CData(s) ==
  [kind |-> "CData", name |-> "", attributes |-> <<>>, children |-> <<>>, text |-> s]

\* BuildElement::node
node(n) ==
  [kind |-> "Element", name |-> n, attributes |-> <<>>, children |-> <<>>, text |-> ""]

\* BuildElement::with_text
with_text(self, s) == [self EXCEPT !.children = Append(@, Text(s))]

\* BuildElement::with_attr (HashMap::insert: the last write wins)
with_attr(self, k, v) == [self EXCEPT !.attributes = (k :> v) @@ @]

\* BuildElement::with_child
with_child(self, child) == [self EXCEPT !.children = Append(@, child)]

\* a child that is an empty CDATA section, as the parser delivers it
with_cdata(self, s) == [self EXCEPT !.children = Append(@, CData(s))]

\* ------------------------------------------------------------------ errors
\* lib.rs Error and rpser::xml::Error, flattened: kind + the strings carried
NoError == [kind |-> "none", detail |-> <<>>]
MethodNotFoundInWsdl(name) == [kind |-> "MethodNotFoundInWsdl", detail |-> <<name>>]
ReceivedNoLoginToken == [kind |-> "ReceivedNoLoginToken", detail |-> <<>>]
HttpError == [kind |-> "Http", detail |-> <<>>]
RpcFault == [kind |-> "Rpc.Fault", detail |-> <<>>]
RpcMalformed == [kind |-> "Rpc.Malformed", detail |-> <<>>]
NotFoundAtPath(path) == [kind |-> "Rpc.NotFoundAtPath", detail |-> path]
ExpectedElement == [kind |-> "Rpc.ExpectedElement", detail |-> <<>>]

\* Result<T, Error>
Ok(v) == [ok |-> TRUE, val |-> v, err |-> NoError]
Err(e) == [ok |-> FALSE, val |-> node(""), err |-> e]

\* Option<String>
None == [some |-> FALSE, val |-> ""]
Some(s) == [some |-> TRUE, val |-> s]

\* ------------------------------------------------------- tree navigation
Min(S) == CHOOSE m \in S : \A k \in S : m <= k

Max(S) == CHOOSE m \in S : \A k \in S : m >= k

\* the panic of unreachable!()
Unreachable == [kind |-> "panic.unreachable", detail |-> <<>>]

\* the element children of self named n, by position
Hits(self, n) ==
  {i \in DOMAIN self.children :
     /\ self.children[i].kind = "Element"
     /\ self.children[i].name = n}

RECURSIVE descend_last_match(_, _)
\* a descent that keeps looking and ends up with the last matching child
descend_last_match(self, path) ==
  IF path = <<>>
  THEN Ok(self)
  ELSE IF Hits(self, path[1]) = {}
  THEN Err(NotFoundAtPath(<<path[1]>>))
  ELSE LET r == descend_last_match(self.children[Max(Hits(self, path[1]))], Tail(path))
       IN IF r.ok THEN r
          ELSE Err(NotFoundAtPath(<<path[1]>> \o r.err.detail))

RECURSIVE descend_no_prepend(_, _)
\* a descent that hands the inner error on as it is
descend_no_prepend(self, path) ==
  IF path = <<>>
  THEN Ok(self)
  ELSE IF Hits(self, path[1]) = {}
  THEN Err(NotFoundAtPath(<<path[1]>>))
  ELSE descend_no_prepend(self.children[Min(Hits(self, path[1]))], Tail(path))

RECURSIVE descend_push_back(_, _)
\* a descent that puts its segment behind the inner error's path
descend_push_back(self, path) ==
  IF path = <<>>
  THEN Ok(self)
  ELSE IF Hits(self, path[1]) = {}
  THEN Err(NotFoundAtPath(<<path[1]>>))
  ELSE LET r == descend_push_back(self.children[Min(Hits(self, path[1]))], Tail(path))
       IN IF r.ok THEN r
          ELSE Err(NotFoundAtPath(r.err.detail \o <<path[1]>>))

RECURSIVE descend(_, _)
\* BuildElement::descend: at each level the first element child named
\* path[1]; an error of the recursive call gets path[1] prepended.
descend(self, path) ==
  IF path = <<>>
  THEN Ok(self)
  ELSE LET hits == {i \in DOMAIN self.children :
                      /\ self.children[i].kind = "Element"
                      /\ self.children[i].name = path[1]}
       IN IF hits = {}
          THEN Err(NotFoundAtPath(<<path[1]>>))
          ELSE LET r == descend(self.children[Min(hits)], Tail(path))
               IN IF r.ok
                  THEN r
                  ELSE IF r.err.kind = "Rpc.NotFoundAtPath"
                  THEN Err(NotFoundAtPath(<<path[1]>> \o r.err.detail))
                  ELSE Err(Unreachable)

RECURSIVE get_at_path_last_match(_, _)
\* a lookup that ends up with the last matching child
get_at_path_last_match(self, path) ==
  IF path = <<>>
  THEN Ok(self)
  ELSE IF Hits(self, path[1]) = {}
  THEN Err(NotFoundAtPath(<<path[1]>>))
  ELSE LET r == get_at_path_last_match(self.children[Max(Hits(self, path[1]))], Tail(path))
       IN IF r.ok THEN r
          ELSE Err(NotFoundAtPath(<<path[1]>> \o r.err.detail))

RECURSIVE FirstNamed(_, _, _)
\* get_at_path's loop over &self.children from position i on: the position
\* of the first element child called n, 0 when the loop runs out
FirstNamed(children, n, i) ==
  IF i > Len(children) THEN 0
  ELSE IF children[i].kind = "Element" /\ children[i].name = n THEN i
  ELSE FirstNamed(children, n, i + 1)

RECURSIVE get_at_path(_, _)
\* BuildElement::get_at_path: descend on a borrowed element, the result a
\* clone
get_at_path(self, path) ==
  IF path = <<>>
  THEN Ok(self)
  ELSE LET i == FirstNamed(self.children, path[1], 1)
       IN IF i = 0
          THEN Err(NotFoundAtPath(<<path[1]>>))
          ELSE LET r == get_at_path(self.children[i], Tail(path))
               IN IF r.ok
                  THEN r
                  ELSE IF r.err.kind = "Rpc.NotFoundAtPath"
                  THEN Err(NotFoundAtPath(<<path[1]>> \o r.err.detail))
                  ELSE Err(Unreachable)

\* EnhancedNode::expect_element
expect_element(n) == IF n.kind = "Element" THEN Ok(n) ELSE Err(ExpectedElement)

RECURSIVE Concat(_)
Concat(ss) == IF ss = <<>> THEN "" ELSE Head(ss) \o Concat(Tail(ss))

IsTextual(n) == n.kind \in {"Text", "CData"}

\* xmltree Element::get_text: None without a text or CDATA child, else the
\* concatenation of all of them
get_text(e) ==
  LET texts == SelectSeq(e.children, IsTextual)
  IN IF texts = <<>>
     THEN None
     ELSE Some(Concat([i \in DOMAIN texts |-> texts[i].text]))

\* ------------------------------------------------- envelope and directory
V2_API_RPC_PATH == "/rpc/soap-axis/confluenceservice-v2?wsdl"

\* rpser::Method: a name and the ordered parameter elements
Method(name, elements) == [name |-> name, elements |-> elements]

\* Session::method: a method with the session's token as first parameter
method(tok, name) == Method(name, <<with_text(node("token"), tok)>>)

\* the method login builds from its credentials
login_method(user, pass) ==
  Method("login", <<with_text(node("username"), user),
                    with_text(node("password"), pass)>>)

\* the words a rendering of the method (Display, as_xml) is made of
MethodWords(m) ==
  <<m.name>> \o [i \in DOMAIN m.elements |-> get_text(m.elements[i]).val]

\* wsdl::Wsdl.operations as a map from operation name to endpoint URL
Directory(names) == [n \in names |-> "https://confluence/rpc/" \o n]

\* The text a response carries: not XML at all, an envelope whose body is a
\* fault, or an envelope with a body element.
Document(raw, wellformed, fault, body) ==
  [raw |-> raw, wellformed |-> wellformed, fault |-> fault, body |-> body]

\* rpser::Response::from_xml
from_xml(doc) ==
  IF ~doc.wellformed THEN Err(RpcMalformed)
  ELSE IF doc.fault THEN Err(RpcFault)
  ELSE Ok(doc.body)

\* what the transport hands back to http::soap_action
Reply(transport, doc) == [transport |-> transport, doc |-> doc]

\* --------------------------------------------------------------- inputs
Urls == {<<"https://confluence">>, <<"https://confluence", "/">>}
Users == {"alice"}
Passwords == {"hunter2"}
LogLevels == {"off", "debug", "trace"}

\* names a caller may invoke; "frobnicate" is in no directory
CallNames == {"getPage", "frobnicate"}

Directories ==
  { Directory({}),
    Directory({"login"}),
    Directory({"login", "logout", "getPage", "getServerInfo"}) }

FetchOutcomes == {Err(HttpError)} \cup {Ok(d) : d \in Directories}

Body(children) == [node("Body") EXCEPT !.children = children]

NoDoc == Document("", FALSE, FALSE, node(""))
TransportFailure == Reply("err", NoDoc)
MalformedReply == Reply("ok", Document("<<<", FALSE, FALSE, node("")))
FaultReply == Reply("ok", Document("fault", TRUE, TRUE, node("")))
BodyReply(raw, children) == Reply("ok", Document(raw, TRUE, FALSE, Body(children)))

LoginReplies ==
  { TransportFailure, MalformedReply, FaultReply,
    BodyReply("token", <<Text("noise"), with_text(node("loginReturn"), "tok")>>),
    BodyReply("empty-cdata", <<with_cdata(node("loginReturn"), "")>>),
    BodyReply("no-text", <<node("loginReturn")>>),
    BodyReply("no-text-then-token",
              <<node("loginReturn"), with_text(node("loginReturn"), "tok")>>),
    BodyReply("nested-only",
              <<with_child(node("wrapper"), with_text(node("loginReturn"), "tok"))>>),
    BodyReply("empty-body", <<>>) }

LogoutReplies ==
  { TransportFailure, MalformedReply, FaultReply,
    BodyReply("true", <<with_text(node("logoutReturn"), "true")>>),
    BodyReply("false", <<with_text(node("logoutReturn"), "false")>>),
    BodyReply("no-text", <<node("logoutReturn")>>),
    BodyReply("empty-body", <<>>) }

CallReplies ==
  { TransportFailure, MalformedReply, FaultReply,
    BodyReply("page", <<with_child(node("getPageReturn"),
                          with_attr(with_text(node("id"), "7"), "type", "xsd:long"))>>) }

\* ------------------------------------------------------------------ state
VARIABLES
  pc,           \* where the owner of the session is
  logLevel,     \* the level the log facade lets through
  args,         \* the arguments login was called with
  wsdl,         \* Session.wsdl: the operation directory
  token,        \* Session.token
  log,          \* what has been logged
  net,          \* the requests handed to the transport, in order
  tasks,        \* per task: its call on the session
  calls,        \* number of calls started on the session
  fetchResult,  \* what wsdl::fetch returned to login
  loginReply,   \* the reply the login POST got
  loginResult,  \* what login returned
  logoutResult, \* what the explicit logout returned
  dropResult    \* what internal_logout returned inside Drop::drop

vars == <<pc, logLevel, args, wsdl, token, log, net, tasks, calls,
          fetchResult, loginReply, loginResult, logoutResult, dropResult>>

\* One application of a function of rpser::xml or of transforms to a value
VARIABLES
  xKind,        \* what the argument is: a tree, a leaf, a record, a list
  xArg,         \* the argument as it was handed over
  xIn,          \* the argument as the caller still holds it
  xPath,        \* the path argument
  xOp,          \* the function applied, "none" before
  xOut          \* what the function returned

xvars == <<xKind, xArg, xIn, xPath, xOp, xOut>>

\* a result nobody has produced yet
Pending == [ok |-> FALSE, val |-> node(""), err |-> [kind |-> "pending", detail |-> <<>>]]

IsPending(r) == ~r.ok /\ r.err.kind = "pending"
IsErr(r) == ~r.ok /\ r.err.kind # "pending"

\* ---------------------------------------------------------------- logging
Entry(level, words) == [level |-> level, words |-> words]

Rank(level) == CASE level = "off" -> 0 [] level = "debug" -> 4 [] level = "trace" -> 5

LetsThrough(e) == Rank(e.level) <= Rank(logLevel)

\* debug!/trace!: an entry is recorded when the level lets it through
Emit(l, entries) == l \o SelectSeq(entries, LetsThrough)

\* ------------------------------------------------------------- transport
Get(url) ==
  [verb |-> "GET", url |-> url, action |-> "", envelope |-> Method("", <<>>),
   by |-> [op |-> "login", id |-> 0]]

\* http::soap_action: one POST of the envelope with the SOAPAction header
soap_action(url, action, envelope, by) ==
  [verb |-> "POST", url |-> url, action |-> action, envelope |-> envelope, by |-> by]

\* ------------------------------------------------------------ dispatcher
\* a lookup that falls back to the service endpoint for an unknown name
internal_call_lookup_fallback(m, directory) ==
  IF m.name \notin DOMAIN directory
  THEN Ok("https://confluence/rpc/soap-axis/confluenceservice-v2")
  ELSE Ok(directory[m.name])

\* Session::internal_call up to the request: the directory lookup comes
\* first and ends the call when the name is unknown
internal_call_lookup(m, directory) ==
  IF m.name \notin DOMAIN directory
  THEN Err(MethodNotFoundInWsdl(m.name))
  ELSE Ok(directory[m.name])

\* logging that traces the envelope of every method, login included
CallLogAll(m) ==
  <<IF m.name = "login"
    THEN Entry("debug", <<"[call] login ******">>)
    ELSE Entry("debug", <<"[call]">> \o MethodWords(m))>>
  \o <<Entry("trace", <<"[method xml]">> \o MethodWords(m))>>

\* Session::internal_call, what it logs before the request: login is
\* starred out and its envelope is not traced
CallLog(m) ==
  <<IF m.name = "login"
    THEN Entry("debug", <<"[call] login ******">>)
    ELSE Entry("debug", <<"[call]">> \o MethodWords(m))>>
  \o (IF m.name # "login"
      THEN <<Entry("trace", <<"[method xml]">> \o MethodWords(m))>>
      ELSE <<>>)

\* Session::internal_call, what it logs once the transport has answered
ResponseLog(reply) ==
  IF reply.transport = "ok"
  THEN <<Entry("trace", <<"[response xml]", reply.doc.raw>>)>>
  ELSE <<>>

\* Session::internal_call after the request: a transport error is returned
\* as it is, anything else goes through Response::from_xml
internal_call_finish(reply) ==
  IF reply.transport # "ok" THEN Err(HttpError) ELSE from_xml(reply.doc)

\* token extraction that takes a missing text for the empty token
login_token_or_default(reply) ==
  LET r == internal_call_finish(reply)
  IN IF ~r.ok THEN r
     ELSE LET d == descend(r.val, <<"loginReturn">>)
          IN IF ~d.ok THEN d
             ELSE LET e == expect_element(d.val)
                  IN IF ~e.ok THEN e
                     ELSE LET t == get_text(e.val)
                          IN IF t.some THEN Ok(t.val) ELSE Ok("")

\* Session::login, from the response of the login call to the token
login_token(reply) ==
  LET r == internal_call_finish(reply)
  IN IF ~r.ok THEN r
     ELSE LET d == descend(r.val, <<"loginReturn">>)
          IN IF ~d.ok THEN d
             ELSE LET e == expect_element(d.val)
                  IN IF ~e.ok THEN e
                     ELSE LET t == get_text(e.val)
                          IN IF t.some THEN Ok(t.val)
                             ELSE Err(ReceivedNoLoginToken)

\* the test of internal_logout with its sense inverted
logout_needs_call_inverted(tok) == tok = ""

\* internal_logout without its test
logout_needs_call_always(tok) == TRUE

\* Session::internal_logout: the test that decides whether to call at all
logout_needs_call(tok) == tok # ""

\* Session::internal_logout, from the response of the logout call on
internal_logout_finish(reply) ==
  LET r == internal_call_finish(reply)
  IN IF ~r.ok THEN r
     ELSE LET d == descend(r.val, <<"logoutReturn">>)
          IN IF ~d.ok THEN d
             ELSE LET e == expect_element(d.val)
                  IN IF ~e.ok THEN e
                     ELSE LET t == get_text(e.val)
                          IN Ok(t.some /\ t.val = "true")

\* what internal_logout logs once the logout call is back
LogoutLog(reply) ==
  LET r == internal_logout_finish(reply)
  IN ResponseLog(reply)
     \o (IF ~r.ok THEN <<>>
         ELSE IF r.val
         THEN <<Entry("debug", <<"logged out successfully">>)>>
         ELSE <<Entry("debug",
                 <<"log out failed (maybe expired token, maybe not logged in)">>)>>)

\* ------------------------------------------------------------------ login
ends_with_slash(url) == url[Len(url)] = "/"

\* Session::login, the base URL without its trailing slash
strip_slash(url) == IF ends_with_slash(url) THEN SubSeq(url, 1, Len(url) - 1) ELSE url

wsdl_url(url) == Concat(strip_slash(url)) \o V2_API_RPC_PATH

Init ==
  /\ pc = "start"
  /\ logLevel \in LogLevels
  /\ args = [url |-> <<>>, user |-> "", pass |-> ""]
  /\ wsdl = Directory({})
  /\ token = ""
  /\ log = <<>>
  /\ net = <<>>
  /\ tasks = [t \in Tasks |-> [pc |-> "idle", id |-> 0, name |-> "", result |-> Pending]]
  /\ calls = 0
  /\ fetchResult = Pending
  /\ loginReply = TransportFailure
  /\ loginResult = Pending
  /\ logoutResult = Pending
  /\ dropResult = Pending
  /\ xKind = "none"
  /\ xArg = node("")
  /\ xIn = node("")
  /\ xPath = <<>>
  /\ xOp = "none"
  /\ xOut = Pending

\* Session::login up to the fetch of the service description
Login(url, user, pass) ==
  /\ pc = "start"
  /\ args' = [url |-> url, user |-> user, pass |-> pass]
  /\ log' = Emit(log, <<Entry("debug", <<"logging in at url", Concat(url), "with user", user>>),
                        Entry("debug", <<"getting wsdl from url", wsdl_url(url)>>)>>)
  /\ net' = Append(net, Get(wsdl_url(url)))
  /\ pc' = "fetching"
  /\ UNCHANGED <<logLevel, wsdl, token, tasks, calls, fetchResult, loginReply,
                 loginResult, logoutResult, dropResult>>

\* Session::login from the answer of wsdl::fetch to the login request
WsdlFetched(outcome) ==
  /\ pc = "fetching"
  /\ fetchResult' = outcome
  /\ IF ~outcome.ok
     THEN /\ loginResult' = outcome
          /\ pc' = "loginFailed"
          /\ UNCHANGED <<wsdl, log, net>>
     ELSE LET m == login_method(args.user, args.pass)
              u == internal_call_lookup(m, outcome.val)
          IN /\ wsdl' = outcome.val
             /\ IF ~u.ok
                THEN /\ loginResult' = u
                     /\ pc' = "loginFailed"
                     /\ UNCHANGED <<log, net>>
                ELSE /\ log' = Emit(log, CallLog(m))
                     /\ net' = Append(net, soap_action(u.val, m.name, m,
                                                      [op |-> "login", id |-> 0]))
                     /\ pc' = "loginPosting"
                     /\ UNCHANGED loginResult
  /\ UNCHANGED <<logLevel, args, token, tasks, calls, loginReply, logoutResult, dropResult>>

\* a login that hands out a session whatever the answer was
LoginResponseAlwaysSession(reply) ==
  /\ pc = "loginPosting"
  /\ loginReply' = reply
  /\ log' = Emit(log, ResponseLog(reply))
  /\ LET t == login_token(reply)
     IN /\ loginResult' = t
        /\ token' = IF t.ok THEN t.val ELSE "none"
        /\ pc' = "live"
  /\ UNCHANGED <<logLevel, args, wsdl, net, tasks, calls, fetchResult, logoutResult,
                 dropResult>>

\* Session::login from the answer to the login request to its return
LoginResponse(reply) ==
  /\ pc = "loginPosting"
  /\ loginReply' = reply
  /\ log' = Emit(log, ResponseLog(reply))
  /\ LET t == login_token(reply)
     IN /\ loginResult' = t
        /\ IF t.ok
           THEN token' = t.val /\ pc' = "live"
           ELSE token' = token /\ pc' = "loginFailed"
  /\ UNCHANGED <<logLevel, args, wsdl, net, tasks, calls, fetchResult, logoutResult,
                 dropResult>>

\* ------------------------------------------------------------------- call
AllIdle == \A t \in Tasks : tasks[t].pc = "idle"

\* Session::call (and every wrapper built on it) up to the request
CallStart(t, name) ==
  /\ pc = "live"
  /\ tasks[t].pc = "idle"
  /\ calls < MaxCalls
  /\ calls' = calls + 1
  /\ LET m == method(token, name)
         u == internal_call_lookup(m, wsdl)
     IN IF ~u.ok
        THEN /\ tasks' = [tasks EXCEPT ![t] =
                            [pc |-> "idle", id |-> calls + 1, name |-> name, result |-> u]]
             /\ UNCHANGED <<log, net>>
        ELSE /\ tasks' = [tasks EXCEPT ![t] =
                            [pc |-> "awaiting", id |-> calls + 1, name |-> name,
                             result |-> Pending]]
             /\ log' = Emit(log, CallLog(m))
             /\ net' = Append(net, soap_action(u.val, m.name, m,
                                              [op |-> "call", id |-> calls + 1]))
  /\ UNCHANGED <<pc, logLevel, args, wsdl, token, fetchResult, loginReply, loginResult,
                 logoutResult, dropResult>>

\* a call that sends its request again after a transport error
CallResponseRetry(t, reply) ==
  /\ tasks[t].pc = "awaiting"
  /\ IF reply.transport # "ok"
     THEN /\ net' = Append(net, soap_action(wsdl[tasks[t].name], tasks[t].name,
                                            method(token, tasks[t].name),
                                            [op |-> "call", id |-> tasks[t].id]))
          /\ UNCHANGED tasks
     ELSE /\ tasks' = [tasks EXCEPT ![t].pc = "idle",
                                    ![t].result = internal_call_finish(reply)]
          /\ UNCHANGED net
  /\ log' = Emit(log, ResponseLog(reply))
  /\ UNCHANGED <<pc, logLevel, args, wsdl, token, calls, fetchResult, loginReply,
                 loginResult, logoutResult, dropResult>>

\* a call that forgets the token when the remote side answers with a fault
CallResponseForgetsToken(t, reply) ==
  /\ tasks[t].pc = "awaiting"
  /\ tasks' = [tasks EXCEPT ![t].pc = "idle", ![t].result = internal_call_finish(reply)]
  /\ log' = Emit(log, ResponseLog(reply))
  /\ token' = IF internal_call_finish(reply).err.kind = "Rpc.Fault" THEN "" ELSE token
  /\ UNCHANGED <<pc, logLevel, args, wsdl, net, calls, fetchResult, loginReply,
                 loginResult, logoutResult, dropResult>>

\* Session::call from the answer of the transport to its return
CallResponse(t, reply) ==
  /\ tasks[t].pc = "awaiting"
  /\ tasks' = [tasks EXCEPT ![t].pc = "idle", ![t].result = internal_call_finish(reply)]
  /\ log' = Emit(log, ResponseLog(reply))
  /\ UNCHANGED <<pc, logLevel, args, wsdl, token, net, calls, fetchResult, loginReply,
                 loginResult, logoutResult, dropResult>>

\* ------------------------------------------------------- logout and drop
\* Drop::drop up to the logout request: block_on(internal_logout()).unwrap().
\* l and n are the log and the requests as the caller of drop leaves them.
DropBegin(l, n) ==
  IF ~logout_needs_call(token)
  THEN /\ dropResult' = Ok(FALSE)
       /\ pc' = "dropped"
       /\ log' = l
       /\ net' = n
  ELSE LET m == method(token, "logout")
           u == internal_call_lookup(m, wsdl)
       IN IF ~u.ok
          THEN /\ dropResult' = u
               /\ pc' = "panicked"
               /\ log' = l
               /\ net' = n
          ELSE /\ dropResult' = Pending
               /\ pc' = "dropAwait"
               /\ log' = Emit(l, CallLog(m))
               /\ net' = Append(n, soap_action(u.val, m.name, m,
                                               [op |-> "drop", id |-> 0]))

\* the session goes out of scope while logged in or not
Drop ==
  /\ pc = "live"
  /\ AllIdle
  /\ DropBegin(log, net)
  /\ UNCHANGED <<logLevel, args, wsdl, token, tasks, calls, fetchResult, loginReply,
                 loginResult, logoutResult>>

\* Drop::drop from the answer to its logout request: unwrap() panics on Err
DropResponse(reply) ==
  /\ pc = "dropAwait"
  /\ LET r == internal_logout_finish(reply)
     IN /\ dropResult' = r
        /\ pc' = IF r.ok THEN "dropped" ELSE "panicked"
  /\ log' = Emit(log, LogoutLog(reply))
  /\ UNCHANGED <<logLevel, args, wsdl, token, net, tasks, calls, fetchResult, loginReply,
                 loginResult, logoutResult>>

\* Session::logout(self) up to the logout request; when internal_logout
\* returns without a request, logout returns and self is dropped at once
Logout ==
  /\ pc = "live"
  /\ AllIdle
  /\ IF ~logout_needs_call(token)
     THEN /\ logoutResult' = Ok(FALSE)
          /\ DropBegin(log, net)
     ELSE LET m == method(token, "logout")
              u == internal_call_lookup(m, wsdl)
          IN IF ~u.ok
             THEN /\ logoutResult' = u
                  /\ DropBegin(log, net)
             ELSE /\ logoutResult' = Pending
                  /\ dropResult' = Pending
                  /\ pc' = "logoutAwait"
                  /\ log' = Emit(log, CallLog(m))
                  /\ net' = Append(net, soap_action(u.val, m.name, m,
                                                   [op |-> "logout", id |-> 0]))
  /\ UNCHANGED <<logLevel, args, wsdl, token, tasks, calls, fetchResult, loginReply,
                 loginResult>>

\* Session::logout(self) from the answer to its request to its return, and
\* the drop of self that the return brings
LogoutResponse(reply) ==
  /\ pc = "logoutAwait"
  /\ logoutResult' = internal_logout_finish(reply)
  /\ DropBegin(Emit(log, LogoutLog(reply)), net)
  /\ UNCHANGED <<logLevel, args, wsdl, token, tasks, calls, fetchResult, loginReply,
                 loginResult>>

Next ==
  \/ \E url \in Urls, user \in Users, pass \in Passwords :
       Login(url, user, pass) /\ UNCHANGED xvars
  \/ \E outcome \in FetchOutcomes : WsdlFetched(outcome) /\ UNCHANGED xvars
  \/ \E reply \in LoginReplies : LoginResponse(reply) /\ UNCHANGED xvars
  \/ \E t \in Tasks, name \in CallNames : CallStart(t, name) /\ UNCHANGED xvars
  \/ \E t \in Tasks, reply \in CallReplies : CallResponse(t, reply) /\ UNCHANGED xvars
  \/ Logout /\ UNCHANGED xvars
  \/ \E reply \in LogoutReplies : LogoutResponse(reply) /\ UNCHANGED xvars
  \/ Drop /\ UNCHANGED xvars
  \/ \E reply \in LogoutReplies : DropResponse(reply) /\ UNCHANGED xvars

Spec == Init /\ [][Next]_<<vars, xvars>>

\* ================================================================ claims
\* requests of one operation of the session owner
PostsBy(op) == {i \in DOMAIN net : net[i].verb = "POST" /\ net[i].by.op = op}

\* logout requests sent by logout or by drop
LogoutRequests ==
  {i \in PostsBy("logout") \cup PostsBy("drop") : net[i].action = "logout"}

SessionExists == pc \in {"live", "logoutAwait", "dropAwait", "dropped", "panicked"}
TornDown == pc \in {"dropped", "panicked"}
ExplicitLogout == ~IsPending(logoutResult) \/ pc = "logoutAwait"
HasLogout == "logout" \in DOMAIN wsdl

\* C1: an explicit logout of a logged-in session followed by its drop sends
\* exactly one logout request in all; the logout run by drop sends none.
C1_LogoutThenDropSendsOne ==
  (TornDown /\ ExplicitLogout /\ token # "" /\ HasLogout)
    => /\ Cardinality(LogoutRequests) = 1
       /\ PostsBy("drop") = {}

\* C2: once logout has run on a non-empty token and the remote call has
\* returned its response, the token is empty.
C2_LogoutClearsToken ==
  /\ (PostsBy("logout") # {} /\ logoutResult.ok) => token = ""
  /\ (PostsBy("drop") # {} /\ dropResult.ok) => token = ""

\* C3 (as amended): the drop of a logged-in session that was never logged
\* out explicitly sends exactly one logout request when the directory has
\* the logout operation and none when it has not; the request is out as
\* soon as drop has begun and drop returns only after its answer.
C3_DropSendsOneIfListed ==
  (pc \in {"dropAwait", "dropped", "panicked"} /\ ~ExplicitLogout /\ token # "")
    => /\ Cardinality(PostsBy("drop")) = (IF HasLogout THEN 1 ELSE 0)
       /\ \A i \in PostsBy("drop") :
            /\ net[i].action = "logout"
            /\ net[i].envelope = method(token, "logout")
       /\ PostsBy("logout") = {}
       /\ (pc = "dropAwait" => IsPending(dropResult))
       /\ (TornDown => ~IsPending(dropResult))

\* C3 as stated: the drop of a logged-in session always sends exactly one
\* logout request.
C3_DropAlwaysSendsOne ==
  (pc \in {"dropAwait", "dropped", "panicked"} /\ ~ExplicitLogout /\ token # "")
    => Cardinality(PostsBy("drop")) = 1

C3_Witness ==
  /\ pc = "dropped"
  /\ ~ExplicitLogout
  /\ token # ""
  /\ Cardinality(PostsBy("drop")) = 1
  /\ dropResult.ok

\* C4: when the logout run by drop fails, the teardown still completes:
\* nothing panics.
C4_FailedDropCompletes ==
  (IsErr(dropResult) /\ pc # "dropAwait") => pc = "dropped"

\* C5: logout on an empty token sends no request and returns Ok(false).
C5_EmptyTokenNoRequest ==
  (SessionExists /\ token = "")
    => /\ PostsBy("logout") \cup PostsBy("drop") = {}
       /\ pc \notin {"logoutAwait", "dropAwait", "panicked"}
       /\ (~IsPending(logoutResult) => logoutResult.ok /\ logoutResult.val = FALSE)
       /\ (~IsPending(dropResult) => dropResult.ok /\ dropResult.val = FALSE)
       /\ (pc = "dropped" => ~IsPending(dropResult))

C5_Witness ==
  /\ pc = "dropped"
  /\ token = ""
  /\ logoutResult.ok
  /\ dropResult.ok

\* requests of the call with invocation number k
PostsOfCall(k) ==
  {i \in DOMAIN net : net[i].verb = "POST" /\ net[i].by = [op |-> "call", id |-> k]}

\* C6: a method name that is not a key of the directory fails with
\* MethodNotFoundInWsdl(name), through call and through login alike, and no
\* request is sent for that invocation.
C6_UnknownMethodFailsFast ==
  /\ \A t \in Tasks :
       (tasks[t].id > 0 /\ tasks[t].name \notin DOMAIN wsdl)
         => /\ tasks[t].pc = "idle"
            /\ tasks[t].result = Err(MethodNotFoundInWsdl(tasks[t].name))
            /\ PostsOfCall(tasks[t].id) = {}
  /\ (fetchResult.ok /\ "login" \notin DOMAIN wsdl)
       => /\ pc = "loginFailed"
          /\ loginResult = Err(MethodNotFoundInWsdl("login"))
          /\ PostsBy("login") = {}

C6_Witness ==
  /\ pc = "live"
  /\ \E t \in Tasks :
       /\ tasks[t].name = "frobnicate"
       /\ tasks[t].result.err.kind = "MethodNotFoundInWsdl"
  /\ \E t \in Tasks : tasks[t].result.ok

\* the answer to the login request, once login has read it
LoginAnswered == pc \notin {"start", "fetching", "loginPosting"} /\ PostsBy("login") # {}
NonFaultAnswer ==
  /\ loginReply.transport = "ok"
  /\ loginReply.doc.wellformed
  /\ ~loginReply.doc.fault
LoginReturns ==
  {i \in DOMAIN loginReply.doc.body.children :
     /\ loginReply.doc.body.children[i].kind = "Element"
     /\ loginReply.doc.body.children[i].name = "loginReturn"}
FirstLoginReturn == loginReply.doc.body.children[Min(LoginReturns)]
HasNoText(e) == \A i \in DOMAIN e.children : e.children[i].kind \notin {"Text", "CData"}

\* C7 (as amended): on a non-fault response whose first loginReturn element
\* has no text, login fails with ReceivedNoLoginToken; on one with no
\* loginReturn element it fails with NotFoundAtPath(["loginReturn"]); in
\* both cases there is no session.
C7_NoTokenErrors ==
  (LoginAnswered /\ NonFaultAnswer)
    => /\ (LoginReturns # {} /\ HasNoText(FirstLoginReturn))
            => /\ loginResult = Err(ReceivedNoLoginToken)
               /\ ~SessionExists
       /\ (LoginReturns = {})
            => /\ loginResult = Err(NotFoundAtPath(<<"loginReturn">>))
               /\ ~SessionExists

\* C7 as stated: a non-fault response without a token, the loginReturn
\* element absent or without text, makes login fail with
\* ReceivedNoLoginToken and nothing else.
C7_NoTokenIsAlwaysReceivedNoLoginToken ==
  (LoginAnswered /\ NonFaultAnswer
     /\ (LoginReturns = {} \/ HasNoText(FirstLoginReturn)))
    => /\ loginResult = Err(ReceivedNoLoginToken)
       /\ ~SessionExists

C7_Witness ==
  /\ LoginAnswered
  /\ loginReply.doc.raw = "no-text-then-token"
  /\ loginResult.err.kind = "ReceivedNoLoginToken"
  /\ pc = "loginFailed"

Mentions(e, S) == \E j \in DOMAIN e.words : e.words[j] \in S

\* C8 (as amended): no log entry holds the password given to login, at any
\* log level and however login ends; the user name is logged, by the first
\* entry of login, whenever debug entries are let through.
C8_PasswordNeverLogged ==
  /\ \A i \in DOMAIN log : ~Mentions(log[i], Passwords)
  /\ (pc # "start" /\ logLevel # "off")
       => /\ Len(log) >= 1
          /\ Mentions(log[1], {args.user})

\* C8 as stated: no log entry holds a credential, user name or password.
C8_NoCredentialLogged ==
  \A i \in DOMAIN log : ~Mentions(log[i], Users \cup Passwords)

C8_Witness ==
  /\ logLevel = "trace"
  /\ pc = "live"
  /\ token = "tok"
  /\ Len(log) >= 4

Gets == {i \in DOMAIN net : net[i].verb = "GET"}

\* C9: one invocation of call sends at most one request, also when it
\* fails; logout and drop send at most one each; login sends one GET and
\* then at most one POST.
C9_OneRoundTrip ==
  /\ \A k \in 1..calls : Cardinality(PostsOfCall(k)) <= 1
  /\ Cardinality({i \in DOMAIN net : net[i].by.op = "call"}) <= calls
  /\ \A t \in Tasks :
       (tasks[t].pc = "idle" /\ IsErr(tasks[t].result))
         => Cardinality(PostsOfCall(tasks[t].id))
              = (IF tasks[t].result.err.kind = "MethodNotFoundInWsdl" THEN 0 ELSE 1)
  /\ Cardinality(PostsBy("logout")) <= 1
  /\ Cardinality(PostsBy("drop")) <= 1
  /\ Cardinality(PostsBy("login")) <= 1
  /\ Cardinality(Gets) <= 1
  /\ \A i \in DOMAIN net : net[i].by.op = "login" => i <= 2
  /\ \A i \in PostsBy("login") : 1 \in Gets /\ i = 2

C9_Witness ==
  \E t \in Tasks :
    /\ tasks[t].pc = "idle"
    /\ tasks[t].result.err.kind = "Http"
    /\ Cardinality(PostsOfCall(tasks[t].id)) = 1
    /\ calls = 2

\* C10: while the session is live, no step of a call changes its token or
\* its directory, and every request of a call carries the session's token.
C10_CallsLeaveSessionAlone ==
  /\ [][(pc = "live" /\ pc' = "live") => (token' = token /\ wsdl' = wsdl)]_vars
  /\ [](\A i \in DOMAIN net :
          net[i].by.op = "call"
            => /\ net[i].envelope.elements[1] = with_text(node("token"), token)
               /\ net[i].url = wsdl[net[i].action])

C10_Witness ==
  /\ pc = "live"
  /\ calls = 2
  /\ \E t \in Tasks : tasks[t].result.ok
  /\ \E t \in Tasks : tasks[t].result.err.kind = "Rpc.Fault"

\* =============================================== rpser::xml and transforms
\* longest path handed to descend / get_at_path
MaxPathLen == 3

\* element names of the trees and segments of the paths
Names == {"a", "b"}

\* every sequence of at most two members of S
Kids(S) == {<<>>} \cup {<<x>> : x \in S} \cup {<<x, y>> : x \in S, y \in S}

Under(n, children) == [node(n) EXCEPT !.children = children]

\* elements of depth one: up to two children, each a childless element or a text
Level1 == {Under(n, k) : n \in Names, k \in Kids({node(m) : m \in Names} \cup {Text("t")})}

\* trees of depth two under one root
Trees == {Under("root", k) : k \in Kids(Level1 \cup {Text("t")})}

Paths == UNION {[1..n -> Names] : n \in 0..MaxPathLen}


\* what is left of a value that was passed by value
Moved == [kind |-> "Moved", name |-> "", attributes |-> <<>>, children |-> <<>>, text |-> ""]

\* fn descend(self, path): the tree is consumed
Descend ==
  /\ xOp = "none"
  /\ xKind = "tree"
  /\ xOp' = "descend"
  /\ xOut' = descend(xIn, xPath)
  /\ xIn' = Moved
  /\ UNCHANGED <<xKind, xArg, xPath>>
  /\ UNCHANGED vars

\* fn get_at_path(&self, path): the tree is borrowed
GetAtPath ==
  /\ xOp = "none"
  /\ xKind = "tree"
  /\ xOp' = "get_at_path"
  /\ xOut' = get_at_path(xIn, xPath)
  /\ UNCHANGED <<xKind, xArg, xIn, xPath>>
  /\ UNCHANGED vars

\* ------------------------------------------------------- typed extraction
\* the characters of the strings the extraction looks into
Spelling ==
  ("" :> <<>>)
  @@ ("long" :> <<"l", "o", "n", "g">>)
  @@ ("int" :> <<"i", "n", "t">>)
  @@ ("boolean" :> <<"b", "o", "o", "l", "e", "a", "n">>)
  @@ ("string" :> <<"s", "t", "r", "i", "n", "g">>)
  @@ ("dateTime" :> <<"d", "a", "t", "e", "T", "i", "m", "e">>)
  @@ ("xsd:long" :> <<"x", "s", "d", ":", "l", "o", "n", "g">>)
  @@ ("xsd:int" :> <<"x", "s", "d", ":", "i", "n", "t">>)
  @@ ("xsd:boolean" :> <<"x", "s", "d", ":", "b", "o", "o", "l", "e", "a", "n">>)
  @@ ("xsd:string" :> <<"x", "s", "d", ":", "s", "t", "r", "i", "n", "g">>)
  @@ ("xsd:dateTime" :> <<"x", "s", "d", ":", "d", "a", "t", "e", "T", "i", "m", "e">>)
  @@ ("xsd:point" :> <<"x", "s", "d", ":", "p", "o", "i", "n", "t">>)
  @@ ("xsd:Long" :> <<"x", "s", "d", ":", "L", "o", "n", "g">>)
  @@ ("42" :> <<"4", "2">>)
  @@ ("-7" :> <<"-", "7">>)
  @@ ("+5" :> <<"+", "5">>)
  @@ ("-" :> <<"-">>)
  @@ ("007" :> <<"0", "0", "7">>)
  @@ ("abc" :> <<"a", "b", "c">>)
  @@ ("4" :> <<"4">>)
  @@ ("2" :> <<"2">>)
  @@ ("7" :> <<"7">>)
  @@ ("3" :> <<"3">>)
  @@ ("true" :> <<"t", "r", "u", "e">>)
  @@ ("maybe" :> <<"m", "a", "y", "b", "e">>)
  @@ ("TRUE" :> <<"T", "R", "U", "E">>)
  @@ ("tru" :> <<"t", "r", "u">>)
  @@ ("Hi" :> <<"H", "i">>)
  @@ ("2147483647" :> <<"2", "1", "4", "7", "4", "8", "3", "6", "4", "7">>)
  @@ ("2147483648" :> <<"2", "1", "4", "7", "4", "8", "3", "6", "4", "8">>)
  @@ ("9223372036854775807" :> <<"9", "2", "2", "3", "3", "7", "2", "0", "3", "6", "8", "5", "4", "7", "7", "5", "8", "0", "7">>)
  @@ ("9223372036854775808" :> <<"9", "2", "2", "3", "3", "7", "2", "0", "3", "6", "8", "5", "4", "7", "7", "5", "8", "0", "8">>)
  @@ ("2011-01-01T10:00:00Z" :> <<"2", "0", "1", "1", "-", "0", "1", "-", "0", "1", "T", "1", "0", ":", "0", "0", ":", "0", "0", "Z">>)
  @@ ("2011-01-01 10:00" :> <<"2", "0", "1", "1", "-", "0", "1", "-", "0", "1", " ", "1", "0", ":", "0", "0">>)

Chars(str) == Spelling[str]

\* str::ends_with
ends_with(str, suffix) ==
  LET a == Chars(str)
      b == Chars(suffix)
  IN /\ Len(b) <= Len(a)
     /\ SubSeq(a, Len(a) - Len(b) + 1, Len(a)) = b

\* rpser::xml::Error::ExpectedElementWithType{name, expected_type, given}
ExpectedElementWithType(name, expected_type, given) ==
  [kind |-> "Rpc.ExpectedElementWithType",
   detail |-> <<name, expected_type>> \o (IF given.some THEN <<given.val>> ELSE <<>>)]

\* rpser::xml::Error::ParseIntError{name, inner}
ParseIntError(name, inner) == [kind |-> "Rpc.ParseIntError", detail |-> <<name, inner>>]

\* rpser::xml::Error::ParseDateTimeError{name, inner}
ParseDateTimeError(name, inner) ==
  [kind |-> "Rpc.ParseDateTimeError", detail |-> <<name, inner>>]

\* a type check that lets the text decide first
get_typed_string_text_first(element, value_type) ==
  LET given == IF "type" \in DOMAIN element.attributes
               THEN Some(element.attributes["type"]) ELSE None
      text == get_text(element)
  IN IF text.some
     THEN Ok(text.val)
     ELSE Err(ExpectedElementWithType(element.name, "*:" \o value_type, given))

\* a type check that takes a missing text for the empty string
get_typed_string_or_empty(element, value_type) ==
  LET given == IF "type" \in DOMAIN element.attributes
               THEN Some(element.attributes["type"]) ELSE None
      text == get_text(element)
  IN IF given.some /\ ends_with(given.val, value_type)
     THEN Ok(IF text.some THEN text.val ELSE "")
     ELSE Err(ExpectedElementWithType(element.name, "*:" \o value_type, given))

\* get_typed_string: the text, when there is a type attribute that ends
\* with value_type and there is a text
get_typed_string(element, value_type) ==
  LET given == IF "type" \in DOMAIN element.attributes
               THEN Some(element.attributes["type"]) ELSE None
      text == get_text(element)
  IN IF given.some /\ text.some /\ ends_with(given.val, value_type)
     THEN Ok(text.val)
     ELSE Err(ExpectedElementWithType(element.name, "*:" \o value_type, given))

Digit == {"0", "1", "2", "3", "4", "5", "6", "7", "8", "9"}

DigitValue(c) ==
  CASE c = "0" -> 0 [] c = "1" -> 1 [] c = "2" -> 2 [] c = "3" -> 3 [] c = "4" -> 4
    [] c = "5" -> 5 [] c = "6" -> 6 [] c = "7" -> 7 [] c = "8" -> 8 [] c = "9" -> 9

RECURSIVE StripZeros(_)
\* the magnitude without leading zeros; zero is the empty magnitude
StripZeros(ds) ==
  IF ds = <<>> THEN <<>>
  ELSE IF Head(ds) = "0" THEN StripZeros(Tail(ds))
  ELSE ds

RECURSIVE LexGreater(_, _)
LexGreater(a, b) ==
  IF a = <<>> THEN FALSE
  ELSE IF DigitValue(Head(a)) # DigitValue(Head(b))
  THEN DigitValue(Head(a)) > DigitValue(Head(b))
  ELSE LexGreater(Tail(a), Tail(b))

\* a > b for magnitudes without leading zeros
Exceeds(a, b) == Len(a) > Len(b) \/ (Len(a) = Len(b) /\ LexGreater(a, b))

\* i64::MAX and i32::MAX; the least value is one further from zero
MaxMagnitude(bits) ==
  IF bits = 64 THEN Chars("9223372036854775807") ELSE Chars("2147483647")
MinMagnitude(bits) ==
  IF bits = 64 THEN Chars("9223372036854775808") ELSE Chars("2147483648")

\* <i64 as FromStr>::from_str / <i32 as FromStr>::from_str: an optional
\* sign, then digits only, within the range of the type.  The value is the
\* sign and the magnitude in decimal.
parse_int(text, bits) ==
  LET cs == Chars(text)
      signed == cs # <<>> /\ Head(cs) \in {"+", "-"}
      neg == cs # <<>> /\ Head(cs) = "-"
      ds == IF signed THEN Tail(cs) ELSE cs
      mag == StripZeros(ds)
  IN IF cs = <<>> THEN Err([kind |-> "Empty", detail |-> <<>>])
     ELSE IF ds = <<>> \/ \E i \in DOMAIN ds : ds[i] \notin Digit
     THEN Err([kind |-> "InvalidDigit", detail |-> <<>>])
     ELSE IF ~neg /\ Exceeds(mag, MaxMagnitude(bits))
     THEN Err([kind |-> "PosOverflow", detail |-> <<>>])
     ELSE IF neg /\ Exceeds(mag, MinMagnitude(bits))
     THEN Err([kind |-> "NegOverflow", detail |-> <<>>])
     ELSE Ok([neg |-> neg /\ mag # <<>>, mag |-> mag])

parse_i64(text) == parse_int(text, 64)
parse_i32(text) == parse_int(text, 32)

\* the shape of a text: digits as "d", every other character as it is
Shape(cs) == [i \in DOMAIN cs |-> IF cs[i] \in Digit THEN "d" ELSE cs[i]]

\* <DateTime<Utc> as FromStr>::from_str, as far as the shape of the text
parse_datetime(text) ==
  IF Shape(Chars(text)) = <<"d", "d", "d", "d", "-", "d", "d", "-", "d", "d", "T",
                            "d", "d", ":", "d", "d", ":", "d", "d", "Z">>
  THEN Ok(Chars(text))
  ELSE Err([kind |-> "Invalid", detail |-> <<>>])

\* F::from_str for the F of each caller of parse
from_str(value_type, text) ==
  CASE value_type = "long" -> parse_i64(text)
    [] value_type = "int" -> parse_i32(text)
    [] value_type = "dateTime" -> parse_datetime(text)

\* the err_mapper each caller of parse passes
err_mapper(value_type, name, inner) ==
  IF value_type = "dateTime"
  THEN ParseDateTimeError(name, inner)
  ELSE ParseIntError(name, inner)

\* parse: element, then type, then text
parse(n, value_type) ==
  LET element == expect_element(n)
  IN IF ~element.ok THEN element
     ELSE LET text == get_typed_string(element.val, value_type)
          IN IF ~text.ok THEN text
             ELSE LET v == from_str(value_type, text.val)
                  IN IF v.ok THEN v
                     ELSE Err(err_mapper(value_type, element.val.name, v.err.kind))

\* EnhancedNode::as_long
as_long(n) == parse(n, "long")

\* EnhancedNode::as_int
as_int(n) == parse(n, "int")

\* a boolean extraction that rejects what is neither true nor false
as_boolean_strict(n) ==
  LET element == expect_element(n)
  IN IF ~element.ok THEN element
     ELSE LET text == get_typed_string(element.val, "boolean")
          IN IF ~text.ok THEN text
             ELSE IF text.val \in {"true", "false"} THEN Ok(text.val = "true")
             ELSE Err(ExpectedElementWithType(element.val.name, "*:boolean", None))

\* EnhancedNode::as_boolean
as_boolean(n) ==
  LET element == expect_element(n)
  IN IF ~element.ok THEN element
     ELSE LET text == get_typed_string(element.val, "boolean")
          IN IF ~text.ok THEN text
             ELSE Ok(text.val = "true")

\* EnhancedNode::as_string
as_string(n) ==
  LET element == expect_element(n)
  IN IF ~element.ok THEN element
     ELSE get_typed_string(element.val, "string")

\* EnhancedNode::as_datetime
as_datetime(n) == parse(n, "dateTime")

\* the extraction called op
Extract(op, n) ==
  CASE op = "as_long" -> as_long(n)
    [] op = "as_int" -> as_int(n)
    [] op = "as_boolean" -> as_boolean(n)
    [] op = "as_string" -> as_string(n)
    [] op = "as_datetime" -> as_datetime(n)

\* the wire name each extraction asks for
WireName(op) ==
  CASE op = "as_long" -> "long"
    [] op = "as_int" -> "int"
    [] op = "as_boolean" -> "boolean"
    [] op = "as_string" -> "string"
    [] op = "as_datetime" -> "dateTime"

Extractions == {"as_long", "as_int", "as_boolean", "as_string", "as_datetime"}

TypeAttrs ==
  {"xsd:long", "xsd:int", "xsd:boolean", "xsd:string", "xsd:dateTime", "long",
   "xsd:point", "xsd:Long"}

LeafTexts ==
  {"42", "-7", "+5", "-", "007", "abc", "true", "maybe", "TRUE", "tru", "Hi",
   "2147483647", "2147483648", "9223372036854775807", "9223372036854775808",
   "2011-01-01T10:00:00Z", "2011-01-01 10:00"}

LeafChildren ==
  {<<>>, <<Text("4"), Text("2")>>, <<CData("")>>, <<node("inner")>>}
    \cup {<<Text(t)>> : t \in LeafTexts}

\* elements called "v" with or without a type attribute, and a bare text
LeafNodes ==
  {Under("v", c) : c \in LeafChildren}
    \cup {with_attr(Under("v", c), "type", ty) : c \in LeafChildren, ty \in TypeAttrs}
    \cup {Text("42")}


\* as_long(&self) and the like, applied to a leaf
ExtractLeaf(op) ==
  /\ xOp = "none"
  /\ xKind = "leaf"
  /\ xOp' = op
  /\ xOut' = Extract(op, xIn)
  /\ UNCHANGED <<xKind, xArg, xIn, xPath>>
  /\ UNCHANGED vars

\* ------------------------------------------------------------ transforms
\* one field of a record literal: the struct field, the child it is read
\* from, the extraction applied, and how a failure is treated:
\*   "required"  get_at_path(..).and_then(..)?
\*   "optional"  get_at_path(..).and_then(..).ok()
\*   "text"      get_at_path(..)?.as_text().map(Into::into)
Field(field, at, how, mode) == [field |-> field, at |-> at, how |-> how, mode |-> mode]

\* impl FromXMLNode for Space
SpaceFields ==
  << Field("description", "description", "as_string", "text"),
     Field("home_page", "homePage", "as_long", "required"),
     Field("key", "key", "as_string", "required"),
     Field("name", "name", "as_string", "required"),
     Field("space_group", "name", "as_string", "text"),
     Field("space_type", "type", "as_string", "required"),
     Field("url", "url", "as_string", "required") >>

\* impl FromXMLNode for Page
PageFields ==
  << Field("id", "id", "as_long", "required"),
     Field("space", "space", "as_string", "required"),
     Field("parent_id", "parentId", "as_long", "required"),
     Field("title", "title", "as_string", "required"),
     Field("url", "url", "as_string", "required"),
     Field("version", "version", "as_int", "required"),
     Field("content", "content", "as_string", "required"),
     Field("created", "created", "as_datetime", "required"),
     Field("creator", "creator", "as_string", "required"),
     Field("modified", "modified", "as_datetime", "required"),
     Field("modifier", "modifier", "as_string", "required"),
     Field("home_page", "homePage", "as_boolean", "required"),
     Field("content_status", "contentStatus", "as_string", "required"),
     Field("current", "current", "as_boolean", "required") >>

\* impl FromXMLNode for PageSummary
PageSummaryFields ==
  << Field("id", "id", "as_long", "required"),
     Field("space", "space", "as_string", "required"),
     Field("parent_id", "parentId", "as_long", "required"),
     Field("title", "title", "as_string", "required"),
     Field("url", "url", "as_string", "required") >>

\* impl FromXMLNode for RemoteServerInfo
RemoteServerInfoFields ==
  << Field("base_url", "baseUrl", "as_string", "optional"),
     Field("build_id", "buildId", "as_string", "optional"),
     Field("development_build", "developmentBuild", "as_boolean", "required"),
     Field("major_version", "majorVersion", "as_int", "required"),
     Field("minor_version", "minorVersion", "as_int", "required"),
     Field("patch_level", "patchLevel", "as_int", "required") >>

\* impl FromXMLNode for AttachmentResponse
AttachmentResponseFields ==
  << Field("comment", "comment", "as_string", "optional"),
     Field("content_type", "contentType", "as_string", "optional"),
     Field("created", "created", "as_datetime", "optional"),
     Field("creator", "creator", "as_string", "optional"),
     Field("file_name", "fileName", "as_string", "optional"),
     Field("file_size", "fileSize", "as_long", "required"),
     Field("id", "id", "as_long", "required"),
     Field("page_id", "pageId", "as_long", "required"),
     Field("title", "title", "as_string", "optional"),
     Field("url", "url", "as_string", "optional") >>

RecordTypes == {"Space", "Page", "PageSummary", "RemoteServerInfo", "AttachmentResponse"}

FieldsOf(ty) ==
  CASE ty = "Space" -> SpaceFields
    [] ty = "Page" -> PageFields
    [] ty = "PageSummary" -> PageSummaryFields
    [] ty = "RemoteServerInfo" -> RemoteServerInfoFields
    [] ty = "AttachmentResponse" -> AttachmentResponseFields

\* XMLNode::as_text: the text of a text node, nothing for any other node
as_text(n) == IF n.kind = "Text" THEN Some(n.text) ELSE None

\* Result::and_then(|e| e.as_..()) on the result of get_at_path
and_then_extract(found, how) == IF found.ok THEN Extract(how, found.val) ELSE found

\* Result::ok
result_ok(r) == Ok(IF r.ok THEN [some |-> TRUE, val |-> r.val] ELSE None)

\* the rest of a field's expression, given what get_at_path found
field_expr(f, found) ==
  CASE f.mode = "required" -> and_then_extract(found, f.how)
    [] f.mode = "optional" -> result_ok(and_then_extract(found, f.how))
    [] f.mode = "text" -> IF found.ok THEN Ok(as_text(found.val)) ELSE found

\* the expression of one field of the record literal, before any `?`
FieldValue(element, f) == field_expr(f, get_at_path(element, <<f.at>>))

RECURSIVE build_keep_going(_, _, _, _)
\* a record literal that goes on after a failure and reports the last one
build_keep_going(element, fields, i, acc) ==
  IF i > Len(fields) THEN acc
  ELSE LET v == FieldValue(element, fields[i])
       IN IF v.ok
          THEN build_keep_going(element, fields, i + 1,
                 IF acc.ok THEN Ok((fields[i].field :> v.val) @@ acc.val) ELSE acc)
          ELSE build_keep_going(element, fields, i + 1, Err(v.err))

RECURSIVE build(_, _, _, _)
\* field i of the record literal gets v?, then the fields after it
build_set(element, fields, i, acc, v) ==
  IF v.ok
  THEN build(element, fields, i + 1, Ok((fields[i].field :> v.val) @@ acc.val))
  ELSE Err(v.err)

\* the record literal: the fields are evaluated in the order written, and
\* the first `?` that meets an error returns it
build(element, fields, i, acc) ==
  IF i > Len(fields) THEN acc
  ELSE build_set(element, fields, i, acc, FieldValue(element, fields[i]))

\* FromXMLNode::from_node for the record type ty
from_node(ty, n) ==
  IF n.kind = "Element"
  THEN build(n, FieldsOf(ty), 1, Ok(<<>>))
  ELSE Err(ExpectedElement)

\* EnhancedNode::into_element
into_element(n) == IF n.kind = "Element" THEN Ok(n) ELSE Err(ExpectedElement)

RECURSIVE collect(_, _, _)
\* summaries.push(r?) for the result r of PageSummary::from_node, then the
\* rest of the loop
collect_push(children, i, summaries, r) ==
  IF r.ok THEN collect(children, i + 1, Append(summaries, r.val)) ELSE Err(r.err)

\* for element in ...children { summaries.push(PageSummary::from_node(element)?); }
collect(children, i, summaries) ==
  IF i > Len(children) THEN Ok(summaries)
  ELSE collect_push(children, i, summaries, from_node("PageSummary", children[i]))

\* Session::get_children from the response on
get_children_finish(body) ==
  LET found == descend(body, <<"getChildrenReturn">>)
  IN IF ~found.ok THEN found
     ELSE LET element == into_element(found.val)
          IN IF ~element.ok THEN element
             ELSE collect(element.val.children, 1, <<>>)

\* ------------------------------------------------- records on the wire
\* most children of one record that are not as they should be
MaxFaults == 2
\* most children of getChildrenReturn
MaxChildren == 2

Faults == {"absent", "mistyped", "untyped", "notext", "garbled"}

GoodText(how) ==
  CASE how = "as_long" -> "7"
    [] how = "as_int" -> "3"
    [] how = "as_boolean" -> "true"
    [] how = "as_string" -> "Hi"
    [] how = "as_datetime" -> "2011-01-01T10:00:00Z"

GoodType(how) == "xsd:" \o WireName(how)

\* the declared type of another primitive
WrongType(how) == IF how = "as_string" THEN "xsd:long" ELSE "xsd:string"

\* the child element a field is read from, as it should be or with a fault
FieldChild(f, fault) ==
  CASE fault = "none" ->
         with_attr(with_text(node(f.at), GoodText(f.how)), "type", GoodType(f.how))
    [] fault = "mistyped" ->
         with_attr(with_text(node(f.at), GoodText(f.how)), "type", WrongType(f.how))
    [] fault = "untyped" -> with_text(node(f.at), GoodText(f.how))
    [] fault = "notext" -> with_attr(node(f.at), "type", GoodType(f.how))
    [] fault = "garbled" ->
         with_attr(with_text(node(f.at), "abc"), "type", GoodType(f.how))

\* the fields that are the first to read their child
Slots(fields) ==
  {i \in DOMAIN fields : \A j \in 1..(i - 1) : fields[j].at # fields[i].at}

RECURSIVE RecordChildren(_, _, _)
RecordChildren(fields, plan, i) ==
  IF i > Len(fields) THEN <<>>
  ELSE LET fault == IF i \in DOMAIN plan THEN plan[i] ELSE "none"
           here == IF i \in Slots(fields) /\ fault # "absent"
                   THEN <<FieldChild(fields[i], fault)>>
                   ELSE <<>>
       IN here \o RecordChildren(fields, plan, i + 1)

\* a record element with one child per field, faults as planned
RecordElement(fields, plan) == Under("item", RecordChildren(fields, plan, 1))

Plans(fields) ==
  UNION {[S -> Faults] : S \in {T \in SUBSET Slots(fields) : Cardinality(T) <= MaxFaults}}

\* what getChildrenReturn may hold: two summaries that differ in the title,
\* one without an id, and a text
ListItems ==
  {RecordElement(PageSummaryFields, <<>>),
   RecordElement(PageSummaryFields, (4 :> "garbled")),
   RecordElement(PageSummaryFields, (1 :> "absent")),
   Text(" ")}

ChildLists == UNION {[1..n -> ListItems] : n \in 0..MaxChildren}

\* response.body of getChildren with the given children of getChildrenReturn
Body_getChildren(l) ==
  Under("getChildrenResponse", <<Under("getChildrenReturn", l)>>)

\* FromXMLNode::from_node(node), which takes the node by value
FromNode ==
  /\ xOp = "none"
  /\ xKind \in RecordTypes
  /\ xOp' = "from_node"
  /\ xOut' = from_node(xKind, xIn)
  /\ xIn' = Moved
  /\ UNCHANGED <<xKind, xArg, xPath>>
  /\ UNCHANGED vars

\* Session::get_children once the response is there
GetChildren ==
  /\ xOp = "none"
  /\ xKind = "children"
  /\ xOp' = "get_children"
  /\ xOut' = get_children_finish(xIn)
  /\ xIn' = Moved
  /\ UNCHANGED <<xKind, xArg, xPath>>
  /\ UNCHANGED vars

\* ------------------------------------ specification of the pure functions
\* the session as it is before login, with logging off
SessionAtRest ==
  /\ pc = "start"
  /\ logLevel = "off"
  /\ args = [url |-> <<>>, user |-> "", pass |-> ""]
  /\ wsdl = Directory({})
  /\ token = ""
  /\ log = <<>>
  /\ net = <<>>
  /\ tasks = [t \in Tasks |-> [pc |-> "idle", id |-> 0, name |-> "", result |-> Pending]]
  /\ calls = 0
  /\ fetchResult = Pending
  /\ loginReply = TransportFailure
  /\ loginResult = Pending
  /\ logoutResult = Pending
  /\ dropResult = Pending

\* the receiver or argument of one call, and the path where there is one
XCase(kind, arg, path) ==
  /\ xKind = kind
  /\ xArg = arg
  /\ xIn = arg
  /\ xPath = path

XInit ==
  /\ SessionAtRest
  /\ \/ \E t \in Trees, p \in Paths : XCase("tree", t, p)
     \/ \E n \in LeafNodes : XCase("leaf", n, <<>>)
     \/ \E ty \in RecordTypes :
          \E plan \in Plans(FieldsOf(ty)) :
            XCase(ty, RecordElement(FieldsOf(ty), plan), <<>>)
     \/ \E ty \in RecordTypes : XCase(ty, Text("item"), <<>>)
     \/ \E l \in ChildLists : XCase("children", Body_getChildren(l), <<>>)
     \/ XCase("children", Under("getChildrenResponse", <<>>), <<>>)
  /\ xOp = "none"
  /\ xOut = Pending

XNext ==
  \/ Descend
  \/ GetAtPath
  \/ \E op \in Extractions : ExtractLeaf(op)
  \/ FromNode
  \/ GetChildren

XmlSpec == XInit /\ [][XNext]_<<vars, xvars>>

\* ===================================================== claims on the tree
RECURSIVE Reach(_, _, _)
\* the node k segments down path p from t, taking the first element child
\* of the wanted name at each level
Reach(t, p, k) ==
  IF k = 0 THEN t
  ELSE LET up == Reach(t, p, k - 1)
       IN up.children[Min(Hits(up, p[k]))]

RECURSIVE Walkable(_, _, _)
\* the first k segments of p can be walked that way
Walkable(t, p, k) ==
  k = 0 \/ (Walkable(t, p, k - 1) /\ Hits(Reach(t, p, k - 1), p[k]) # {})

\* the first segment that has no matching element child
FailIndex(t, p) == Min({k \in 1..Len(p) : ~Walkable(t, p, k)})

Descended == xOp = "descend"
Peeked == xOp = "get_at_path"

\* C11: descend(t, p) is the node reached by taking, at each level, the first
\* element child named by the next segment: a later sibling of the same name
\* is never taken, not even when the first match fails below and the later
\* one would not; text children are skipped; the empty path gives t itself
\* as an element node.
C11_DescendTakesFirstMatch ==
  Descended =>
    /\ xPath = <<>> => xOut = Ok(xArg) /\ xOut.val.kind = "Element"
    /\ Walkable(xArg, xPath, Len(xPath)) => xOut = Ok(Reach(xArg, xPath, Len(xPath)))
    /\ ~Walkable(xArg, xPath, Len(xPath)) => ~xOut.ok

\* two children carry the first segment's name, the first of them has no
\* child for the second segment, the later one has, and there is a text child
\* before the node that is reached: the descent has failed
C11_Witness ==
  /\ Descended
  /\ Len(xPath) = 2
  /\ Cardinality(Hits(xArg, xPath[1])) = 2
  /\ Hits(xArg.children[Min(Hits(xArg, xPath[1]))], xPath[2]) = {}
  /\ Hits(xArg.children[Max(Hits(xArg, xPath[1]))], xPath[2]) # {}
  /\ ~xOut.ok

\* text children are skipped: a text comes first, the element behind it is
\* the one reached
C11_WitnessText ==
  /\ Descended
  /\ Len(xPath) = 1
  /\ xArg.children # <<>>
  /\ xArg.children[1].kind = "Text"
  /\ xOut.ok

\* C12 as stated: whenever descend or get_at_path fails on a non-empty path,
\* the error carries the full requested path.
C12_ErrorPathIsFullPath ==
  (Descended \/ Peeked) /\ xPath # <<>> /\ ~xOut.ok
    => xOut.err = NotFoundAtPath(xPath)

\* C12: when descend or get_at_path fails on a non-empty path at the last
\* segment, all segments before it matching, the error carries the full
\* requested path; when the first segment already has no matching child the
\* error carries that first segment alone.
C12_ErrorPathEndsAtFailure ==
  (Descended \/ Peeked) /\ xPath # <<>> /\ ~xOut.ok =>
    /\ Walkable(xArg, xPath, Len(xPath) - 1) => xOut.err = NotFoundAtPath(xPath)
    /\ Hits(xArg, xPath[1]) = {} => xOut.err = NotFoundAtPath(<<xPath[1]>>)

\* a descent of three segments that fails at the third
C12_Witness ==
  /\ Descended
  /\ Len(xPath) = 3
  /\ Walkable(xArg, xPath, 2)
  /\ ~xOut.ok
  /\ xOut.err.detail = xPath

\* a descent of three segments that fails at the first
C12_WitnessFirst ==
  /\ Descended
  /\ Len(xPath) = 3
  /\ Hits(xArg, xPath[1]) = {}
  /\ ~xOut.ok

\* C13: descend is total and fails with NotFoundAtPath only: on a non-empty
\* path it returns the node reached, or NotFoundAtPath with the requested
\* path's prefix up to and including the first segment without a matching
\* element child; the unreachable!() branch is never taken.
C13_DescendTotalWithPrefix ==
  Descended /\ xPath # <<>> =>
    /\ xOut.ok <=> Walkable(xArg, xPath, Len(xPath))
    /\ xOut.ok => xOut.val = Reach(xArg, xPath, Len(xPath))
    /\ ~xOut.ok =>
         /\ xOut.err.kind # "panic.unreachable"
         /\ xOut.err = NotFoundAtPath(SubSeq(xPath, 1, FailIndex(xArg, xPath)))

\* a descent of three segments with two different names among the first two
\* that fails at the second
C13_Witness ==
  /\ Descended
  /\ Len(xPath) = 3
  /\ xPath[1] # xPath[2]
  /\ ~xOut.ok
  /\ FailIndex(xArg, xPath) = 2
  /\ Len(xOut.err.detail) = 2

\* C14: get_at_path(t, p) has the outcome of descend(t, p), the node on
\* success and the NotFoundAtPath error on failure, and leaves t as it was.
C14_GetAtPathIsDescend ==
  Peeked => xOut = descend(xArg, xPath) /\ xIn = xArg

\* a lookup with two children of the first segment's name that found a node
\* two levels down, and one that failed two levels down
C14_Witness ==
  /\ Peeked
  /\ Len(xPath) = 2
  /\ Cardinality(Hits(xArg, xPath[1])) = 2
  /\ xOut.ok
  /\ xIn = xArg

C14_WitnessFailure ==
  /\ Peeked
  /\ Len(xPath) = 2
  /\ Hits(xArg, xPath[1]) # {}
  /\ ~xOut.ok

\* ========================================== claims on the typed extraction
\* the declared types of the leaves that end with each wire name
Fitting ==
  {<<"xsd:long", "long">>, <<"long", "long">>,
   <<"xsd:int", "int">>, <<"xsd:point", "int">>,
   <<"xsd:boolean", "boolean">>, <<"xsd:string", "string">>,
   <<"xsd:dateTime", "dateTime">>}

Declared(n) == "type" \in DOMAIN n.attributes
Fits(n, wire) == Declared(n) /\ <<n.attributes["type"], wire>> \in Fitting

Extracted == xKind = "leaf" /\ xOp \in Extractions
ParseErrors == {"Rpc.ParseIntError", "Rpc.ParseDateTimeError"}
Leaf42 == with_attr(with_text(node("v"), "42"), "type", "xsd:long")

\* C15: the declared type is checked before the text is parsed: an element
\* whose type attribute is missing or does not end with the wire name asked
\* for gets ExpectedElementWithType from every extraction, whatever its
\* text; a parse error comes only with a matching type and carries the
\* element's name; the leaf of type xsd:long with text 42 gives 42 to as_long
\* and a type mismatch to as_int.
C15_TypeCheckedBeforeParse ==
  Extracted /\ xArg.kind = "Element" =>
    /\ ~Fits(xArg, WireName(xOp)) =>
         /\ ~xOut.ok
         /\ xOut.err.kind = "Rpc.ExpectedElementWithType"
         /\ xOut.err.detail[1] = xArg.name
         /\ xOut.err.detail[2] = "*:" \o WireName(xOp)
    /\ ~xOut.ok /\ xOut.err.kind \in ParseErrors =>
         /\ Fits(xArg, WireName(xOp))
         /\ xOut.err.detail[1] = xArg.name
    /\ xArg = Leaf42 /\ xOp = "as_long" =>
         xOut.ok /\ xOut.val = [neg |-> FALSE, mag |-> <<"4", "2">>]
    /\ xArg = Leaf42 /\ xOp = "as_int" =>
         ~xOut.ok /\ xOut.err.kind = "Rpc.ExpectedElementWithType"

\* as_int has refused the leaf of type xsd:long with text 42
C15_Witness ==
  /\ Extracted
  /\ xOp = "as_int"
  /\ xArg = Leaf42
  /\ ~xOut.ok
  /\ xOut.err = ExpectedElementWithType("v", "*:int", Some("xsd:long"))

\* a parse error: the type fits and the text is no number
C15_WitnessParseError ==
  /\ Extracted
  /\ xOp = "as_long"
  /\ ~xOut.ok
  /\ xOut.err = ParseIntError("v", "InvalidDigit")

\* C16: on an element whose type attribute ends with boolean and that has
\* text, as_boolean never fails; it gives true exactly for the text "true"
\* and false for every other text.
C16_BooleanIsLenient ==
  /\ Extracted
  /\ xOp = "as_boolean"
  /\ xArg.kind = "Element"
  /\ Fits(xArg, "boolean")
  /\ get_text(xArg).some
  => /\ xOut.ok
     /\ xOut.val \in BOOLEAN
     /\ xOut.val <=> get_text(xArg).val = "true"

\* as_boolean gave false for the text "maybe"
C16_Witness ==
  /\ Extracted
  /\ xOp = "as_boolean"
  /\ xArg = with_attr(with_text(node("v"), "maybe"), "type", "xsd:boolean")
  /\ xOut.ok
  /\ xOut.val = FALSE

\* ================================================ claims on the marshaling
Marshaled == xKind \in RecordTypes /\ xOp = "from_node"

\* the child a field is read from: the first element child of that name
Child(n, at) == n.children[Min(Hits(n, at))]

NoText(c) == \A i \in DOMAIN c.children : c.children[i].kind \notin {"Text", "CData"}

Parsed == {"as_long", "as_int", "as_datetime"}

\* the extraction of field f from record element n cannot succeed
Broken(n, f) ==
  \/ Hits(n, f.at) = {}
  \/ ~Fits(Child(n, f.at), WireName(f.how))
  \/ NoText(Child(n, f.at))
  \/ f.how \in Parsed /\ Child(n, f.at).children[1].text = "abc"

\* the error that belongs to a broken field
ErrorOf(n, f) ==
  IF Hits(n, f.at) = {} THEN NotFoundAtPath(<<f.at>>)
  ELSE IF ~Fits(Child(n, f.at), WireName(f.how)) \/ NoText(Child(n, f.at))
  THEN ExpectedElementWithType(f.at, "*:" \o WireName(f.how),
         IF Declared(Child(n, f.at))
         THEN Some(Child(n, f.at).attributes["type"]) ELSE None)
  ELSE IF f.how = "as_datetime" THEN ParseDateTimeError(f.at, "Invalid")
  ELSE ParseIntError(f.at, "InvalidDigit")

BrokenFields(n, fields) == {i \in DOMAIN fields : Broken(n, fields[i])}

\* C17: marshaling a Page or a PageSummary is all or nothing: it succeeds
\* exactly when no field's element is absent, mistyped, without text or
\* unparsable, and otherwise returns the error of the first failing field in
\* the order id, space, parentId, title, url, version, ...
C17_FirstFailingFieldDecides ==
  Marshaled /\ xKind \in {"Page", "PageSummary"} /\ xArg.kind = "Element" =>
    LET fields == FieldsOf(xKind)
        broken == BrokenFields(xArg, fields)
    IN /\ [i \in 1..5 |-> fields[i].at] = <<"id", "space", "parentId", "title", "url">>
       /\ xKind = "Page" => fields[6].at = "version"
       /\ xOut.ok <=> broken = {}
       /\ xOut.ok => DOMAIN xOut.val = {fields[i].field : i \in DOMAIN fields}
       /\ broken # {} => xOut.err = ErrorOf(xArg, fields[Min(broken)])

\* a Page without its version element and with a content element without
\* text: the marshal has failed with the error of version
C17_Witness ==
  /\ Marshaled
  /\ xKind = "Page"
  /\ xArg.kind = "Element"
  /\ BrokenFields(xArg, PageFields) = {6, 7}
  /\ Hits(xArg, "version") = {}
  /\ ~xOut.ok
  /\ xOut.err = NotFoundAtPath(<<"version">>)

\* C18 as stated: a Space, RemoteServerInfo or AttachmentResponse whose
\* required fields are all present and well typed marshals, whatever is the
\* matter with its optional fields, and reports each broken optional field
\* as absent.
C18_OptionalNeverFails ==
  /\ Marshaled
  /\ xKind \in {"Space", "RemoteServerInfo", "AttachmentResponse"}
  /\ xArg.kind = "Element"
  /\ \A i \in DOMAIN FieldsOf(xKind) :
       FieldsOf(xKind)[i].mode = "required" => ~Broken(xArg, FieldsOf(xKind)[i])
  => /\ xOut.ok
     /\ \A i \in DOMAIN FieldsOf(xKind) :
          FieldsOf(xKind)[i].mode # "required" /\ Broken(xArg, FieldsOf(xKind)[i])
            => ~xOut.val[FieldsOf(xKind)[i].field].some

IsElement(n) == n.kind = "Element"

\* C19 as stated: get_children marshals the element children of
\* getChildrenReturn, one PageSummary each, in child order; children that
\* are no elements do not count; it fails only if an element child fails to
\* marshal.
C19_OnlyElementChildrenCount ==
  xOp = "get_children" /\ Hits(xArg, "getChildrenReturn") # {} =>
    LET elements == SelectSeq(Child(xArg, "getChildrenReturn").children, IsElement)
        sound == \A i \in DOMAIN elements :
                   BrokenFields(elements[i], PageSummaryFields) = {}
    IN /\ xOut.ok <=> sound
       /\ xOut.ok =>
            /\ Len(xOut.val) = Len(elements)
            /\ \A i \in DOMAIN elements :
                 xOut.val[i].title = Child(elements[i], "title").children[1].text

\* C20: an extraction from an element without a text child fails with
\* ExpectedElementWithType even when the declared type matches, and the
\* error's given is that declared type; as_string gives no empty string for
\* a childless element; a Page whose content element is empty does not
\* marshal.
C20_NoTextIsATypeError ==
  /\ Extracted /\ xArg.kind = "Element" /\ Fits(xArg, WireName(xOp)) /\ NoText(xArg)
       => /\ ~xOut.ok
          /\ xOut.err = ExpectedElementWithType(xArg.name, "*:" \o WireName(xOp),
                          Some(xArg.attributes["type"]))
  /\ Extracted /\ xOp = "as_string" /\ xArg.kind = "Element" /\ xArg.children = <<>>
       => ~xOut.ok
  /\ Marshaled /\ xKind = "Page" /\ xArg.kind = "Element"
       /\ Hits(xArg, "content") # {}
       /\ Child(xArg, "content").children = <<>>
       => /\ ~xOut.ok
          /\ BrokenFields(xArg, PageFields) = {7}
               => xOut.err = ExpectedElementWithType("content", "*:string",
                               IF Declared(Child(xArg, "content"))
                               THEN Some(Child(xArg, "content").attributes["type"])
                               ELSE None)

\* a Page whose only fault is a content element of type xsd:string without
\* text: the marshal has failed over the content
C20_Witness ==
  /\ Marshaled
  /\ xKind = "Page"
  /\ xArg.kind = "Element"
  /\ BrokenFields(xArg, PageFields) = {7}
  /\ Hits(xArg, "content") # {}
  /\ Fits(Child(xArg, "content"), "string")
  /\ Child(xArg, "content").children = <<>>
  /\ ~xOut.ok
  /\ xOut.err = ExpectedElementWithType("content", "*:string", Some("xsd:string"))

\* as_string of a childless element of type xsd:string has failed
C20_WitnessLeaf ==
  /\ Extracted
  /\ xOp = "as_string"
  /\ xArg = with_attr(node("v"), "type", "xsd:string")
  /\ ~xOut.ok
  /\ xOut.err = ExpectedElementWithType("v", "*:string", Some("xsd:string"))

\* ================================================= claims on failed logins
LoginPosts == {i \in DOMAIN net : net[i].verb = "POST" /\ net[i].action = "login"}

\* C21: a login that fails at any step (fetch of the description, lookup of
\* the login operation, transport, fault, missing loginReturn, missing
\* token) creates no session and causes no logout request, neither then nor
\* later: nothing is sent and nothing changes once it has failed; and the
\* login request is sent only after the description was fetched successfully.
C21_FailedLoginLeavesNothing ==
  [][/\ IsErr(loginResult') =>
          /\ pc' = "loginFailed"
          /\ ~SessionExists'
          /\ LogoutRequests' = {}
          /\ IsPending(logoutResult') /\ IsPending(dropResult')
     /\ pc = "loginFailed" => UNCHANGED <<pc, net, token, loginResult>>
     /\ \A i \in LoginPosts' :
          /\ fetchResult'.ok
          /\ \E j \in 1..(i - 1) : net'[j].verb = "GET"]_vars

\* a login that got as far as the answer to its request and failed for want
\* of a token: one GET, one login POST, no session
C21_Witness ==
  /\ pc = "loginFailed"
  /\ fetchResult.ok
  /\ LoginPosts # {}
  /\ loginResult = Err(ReceivedNoLoginToken)
  /\ LogoutRequests = {}

====
